---- MODULE Spec2Model ----
(***************************************************************************)
(* The interactive diff-and-merge core of the editor: the tokenizer, the   *)
(* LCS diff engine and the diff renderer (utils/diffEngine, in its two     *)
(* versions), the Change-Unit click handler, and the editor's history /    *)
(* AI-revision machinery (components/Editor).                              *)
(*                                                                         *)
(* Strings are sequences of one-character strings.  An HTML string is a    *)
(* sequence of items (text characters, <br>, <div>, </div>, zero-width     *)
(* spaces and diff spans); the browser's HTML parser is Parse.             *)
(***************************************************************************)
EXTENDS Integers, Sequences, FiniteSets, TLC

\* ------------------------------------------------------------------------
\* Bounds of the model.
\* ------------------------------------------------------------------------
MaxLen == 3
MaxClicks == 3
MaxRevisions == 2
MaxEvents == 3
MaxTransient == 1

\* ------------------------------------------------------------------------
\* Characters.  "a" and "b" are \w characters, " " and "\n" are \s
\* characters, "&" is neither (and is one of the characters escapeHtml
\* rewrites; Korean letters are in this class as well).
\* ------------------------------------------------------------------------
NL == "\n"
WordChars == {"a", "b"}
SpaceChars == {" ", NL}
OtherChars == {"&"}
Alphabet == {"a", " ", NL, "&"}
Strings == UNION {[1..n -> Alphabet] : n \in 0..MaxLen}

Max(x, y) == IF x >= y THEN x ELSE y

RECURSIVE Reverse(_)
Reverse(s) == IF s = <<>> THEN <<>> ELSE Reverse(Tail(s)) \o <<Head(s)>>

RECURSIVE Concat(_)
Concat(ss) == IF ss = <<>> THEN <<>> ELSE Head(ss) \o Concat(Tail(ss))

\* ------------------------------------------------------------------------
\* Tokenizer.
\* ------------------------------------------------------------------------
CharClass(c) ==
  IF c \in WordChars THEN "w" ELSE IF c \in SpaceChars THEN "s" ELSE "o"

\* str.split(/(\s+|\b)/).filter(s => s !== ''): the separators are captured,
\* so nothing is dropped but the empty pieces; the pieces are the maximal
\* runs of whitespace, of \w characters and of other characters.
RECURSIVE splitPattern(_)
splitPattern(s) ==
  IF s = <<>> THEN <<>>
  ELSE LET rest == splitPattern(Tail(s)) IN
       IF rest # <<>> /\ CharClass(Head(rest)[1]) = CharClass(Head(s))
       THEN << <<Head(s)>> \o Head(rest) >> \o Tail(rest)
       ELSE << <<Head(s)>> >> \o rest

\* Index of the first "\n" of text, or Len(text) + 1.
RECURSIVE FirstNL(_)
FirstNL(text) ==
  IF text = <<>> \/ Head(text) = NL THEN 1 ELSE 1 + FirstNL(Tail(text))

\* tokenize: text.split(/(\n)/), each "\n" a token of its own, every other
\* non-empty part split by splitPattern.
RECURSIVE tokenize(_)
tokenize(text) ==
  IF text = <<>> THEN <<>>
  ELSE IF Head(text) = NL THEN << <<NL>> >> \o tokenize(Tail(text))
  ELSE LET k == FirstNL(text) IN
       splitPattern(SubSeq(text, 1, k - 1)) \o tokenize(SubSeq(text, k, Len(text)))

\* The tokenization inside computeDiff of src/utils/diffEngine.ts: the whole
\* text split by the pattern, newlines not isolated.
tokenizeDE(text) == splitPattern(text)

\* ------------------------------------------------------------------------
\* Sequence diff engine (the same in both versions but for the tokenizer).
\* ------------------------------------------------------------------------
Op(t, v) == [type |-> t, value |-> v]

\* Fault variant of dp: a mismatch takes the lesser of the two scores.
RECURSIVE dpLeast(_, _, _, _)
dpLeast(tokens1, tokens2, i, j) ==
  IF i = 0 \/ j = 0 THEN 0
  ELSE IF tokens1[i] = tokens2[j] THEN dpLeast(tokens1, tokens2, i - 1, j - 1) + 1
  ELSE IF dpLeast(tokens1, tokens2, i - 1, j) <= dpLeast(tokens1, tokens2, i, j - 1)
  THEN dpLeast(tokens1, tokens2, i - 1, j)
  ELSE dpLeast(tokens1, tokens2, i, j - 1)

\* The LCS table dp[i][j] over the token arrays.
RECURSIVE dp(_, _, _, _)
dp(tokens1, tokens2, i, j) ==
  IF i = 0 \/ j = 0 THEN 0
  ELSE IF tokens1[i] = tokens2[j] THEN dp(tokens1, tokens2, i - 1, j - 1) + 1
  ELSE Max(dp(tokens1, tokens2, i - 1, j), dp(tokens1, tokens2, i, j - 1))

\* Fault variant of backtrack: the labels of the two moves are exchanged.
RECURSIVE backtrackSwapped(_, _, _, _)
backtrackSwapped(tokens1, tokens2, i, j) ==
  IF ~(i > 0 \/ j > 0) THEN <<>>
  ELSE IF i > 0 /\ j > 0 /\ tokens1[i] = tokens2[j]
  THEN <<Op("equal", tokens1[i])>> \o backtrackSwapped(tokens1, tokens2, i - 1, j - 1)
  ELSE IF j > 0 /\ (i = 0 \/ dp(tokens1, tokens2, i, j - 1) >= dp(tokens1, tokens2, i - 1, j))
  THEN <<Op("delete", tokens2[j])>> \o backtrackSwapped(tokens1, tokens2, i, j - 1)
  ELSE <<Op("insert", tokens1[i])>> \o backtrackSwapped(tokens1, tokens2, i - 1, j)

\* Fault variant of backtrack: on equal predecessor scores the scan moves up.
RECURSIVE backtrackDeleteOnTie(_, _, _, _)
backtrackDeleteOnTie(tokens1, tokens2, i, j) ==
  IF ~(i > 0 \/ j > 0) THEN <<>>
  ELSE IF i > 0 /\ j > 0 /\ tokens1[i] = tokens2[j]
  THEN <<Op("equal", tokens1[i])>> \o backtrackDeleteOnTie(tokens1, tokens2, i - 1, j - 1)
  ELSE IF j > 0 /\ (i = 0 \/ dp(tokens1, tokens2, i, j - 1) > dp(tokens1, tokens2, i - 1, j))
  THEN <<Op("insert", tokens2[j])>> \o backtrackDeleteOnTie(tokens1, tokens2, i, j - 1)
  ELSE <<Op("delete", tokens1[i])>> \o backtrackDeleteOnTie(tokens1, tokens2, i - 1, j)

\* Fault variant of backtrack: the insert and delete branches are tried
\* before the equal branch.
RECURSIVE backtrackEqualLast(_, _, _, _)
backtrackEqualLast(tokens1, tokens2, i, j) ==
  IF ~(i > 0 \/ j > 0) THEN <<>>
  ELSE IF j > 0 /\ (i = 0 \/ dp(tokens1, tokens2, i, j - 1) >= dp(tokens1, tokens2, i - 1, j))
  THEN <<Op("insert", tokens2[j])>> \o backtrackEqualLast(tokens1, tokens2, i, j - 1)
  ELSE IF i > 0 /\ (j = 0 \/ dp(tokens1, tokens2, i, j - 1) < dp(tokens1, tokens2, i - 1, j))
  THEN <<Op("delete", tokens1[i])>> \o backtrackEqualLast(tokens1, tokens2, i - 1, j)
  ELSE <<Op("equal", tokens1[i])>> \o backtrackEqualLast(tokens1, tokens2, i - 1, j - 1)

\* The backward scan from (i, j); the result is in push order.
RECURSIVE backtrack(_, _, _, _)
backtrack(tokens1, tokens2, i, j) ==
  IF ~(i > 0 \/ j > 0) THEN <<>>
  ELSE IF i > 0 /\ j > 0 /\ tokens1[i] = tokens2[j]
  THEN <<Op("equal", tokens1[i])>> \o backtrack(tokens1, tokens2, i - 1, j - 1)
  ELSE IF j > 0 /\ (i = 0 \/ dp(tokens1, tokens2, i, j - 1) >= dp(tokens1, tokens2, i - 1, j))
  THEN <<Op("insert", tokens2[j])>> \o backtrack(tokens1, tokens2, i, j - 1)
  ELSE IF i > 0 /\ (j = 0 \/ dp(tokens1, tokens2, i, j - 1) < dp(tokens1, tokens2, i - 1, j))
  THEN <<Op("delete", tokens1[i])>> \o backtrack(tokens1, tokens2, i - 1, j)
  ELSE \* no branch taken: the while loop would make no progress
       <<Op("stuck", <<>>)>>

\* Fault variant of diffTokens: the operations left in backtracking order.
diffTokensUnreversed(tokens1, tokens2) ==
  backtrack(tokens1, tokens2, Len(tokens1), Len(tokens2))

diffTokens(tokens1, tokens2) ==
  Reverse(backtrack(tokens1, tokens2, Len(tokens1), Len(tokens2)))

computeDiff(original, modified) == diffTokens(tokenize(original), tokenize(modified))

computeDiffDE(original, modified) == diffTokens(tokenizeDE(original), tokenizeDE(modified))

\* ------------------------------------------------------------------------
\* HTML.  An item of an HTML string or of the parsed content.
\* ------------------------------------------------------------------------
Item(tag, ch, state, original, modified, inner) ==
  [tag |-> tag, ch |-> ch, state |-> state,
   original |-> original, modified |-> modified, inner |-> inner]
Text(c) == Item("text", c, "", <<>>, <<>>, <<>>)
ZWSP == Item("zwsp", "", "", <<>>, <<>>, <<>>)
BR == Item("br", "", "", <<>>, <<>>, <<>>)
DivOpen == Item("div", "", "", <<>>, <<>>, <<>>)
DivClose == Item("/div", "", "", <<>>, <<>>, <<>>)
\* <span class="diff-interactive" contenteditable="false" data-state=...
\*   data-original=... data-modified=...>inner</span>
Span(state, original, modified, inner) ==
  Item("span", "", state, original, modified, inner)

\* The placeholder markup of the two empty cases.
MarkerDeleted == "<span class=\"... align-baseline mx-0.5 ...\">[-]</span>"
MarkerAdded == "<span class=\"... align-baseline mx-0.5 ...\">(added)</span>"

EscapeChar(c) ==
  CASE c = "&" -> "&amp;"
    [] c = "<" -> "&lt;"
    [] c = ">" -> "&gt;"
    [] c = "\"" -> "&quot;"
    [] c = "'" -> "&#039;"
    [] OTHER -> c

escapeHtml(str) == [i \in 1..Len(str) |-> EscapeChar(str[i])]

\* escapeHtml(str).replace(/\n/g, "<br>")
formatForDisplay(str) ==
  [i \in 1..Len(str) |-> IF str[i] = NL THEN "<br>" ELSE EscapeChar(str[i])]

\* What the HTML parser makes of an entity.
DecodeChar(c) ==
  CASE c = "&amp;" -> "&"
    [] c = "&lt;" -> "<"
    [] c = "&gt;" -> ">"
    [] c = "&quot;" -> "\""
    [] c = "&#039;" -> "'"
    [] OTHER -> c

Decode(str) == [i \in 1..Len(str) |-> DecodeChar(str[i])]

\* element.innerHTML = html (and getAttribute on the result): entities are
\* decoded in text and in attribute values, elements are kept.
Parse(html) ==
  [i \in 1..Len(html) |->
     [html[i] EXCEPT !.ch = DecodeChar(@), !.original = Decode(@),
                     !.modified = Decode(@), !.inner = Decode(@)]]

\* Display markup appended to a line outside a span.
AsItems(markup) ==
  [i \in 1..Len(markup) |-> IF markup[i] = "<br>" THEN BR ELSE Text(markup[i])]

\* ------------------------------------------------------------------------
\* Diff renderer, unnamed/part_004.
\* ------------------------------------------------------------------------
RenderStart ==
  [htmlBuilder |-> <<>>, lineBuilder |-> <<>>,
   pendingDelete |-> <<>>, pendingInsert |-> <<>>]

flushPending(st) ==
  IF st.pendingDelete = <<>> /\ st.pendingInsert = <<>> THEN st
  ELSE LET spanHtml ==
             IF st.pendingInsert # <<>> /\ st.pendingDelete = <<>>
             THEN Span("modified", <<>>, escapeHtml(st.pendingInsert),
                       formatForDisplay(st.pendingInsert))
             ELSE IF st.pendingInsert = <<>> /\ st.pendingDelete # <<>>
             THEN Span("modified", escapeHtml(st.pendingDelete), <<>>,
                       <<MarkerDeleted>>)
             ELSE Span("modified", escapeHtml(st.pendingDelete),
                       escapeHtml(st.pendingInsert),
                       formatForDisplay(st.pendingInsert))
       IN [st EXCEPT !.lineBuilder = @ \o <<ZWSP, spanHtml, ZWSP>>,
                     !.pendingDelete = <<>>, !.pendingInsert = <<>>]

\* appendText: every "\n" of text closes the current <div> (an empty line
\* holds a <br>) and starts a new line; the other characters go to the line.
RECURSIVE appendText(_, _)
appendText(st, text) ==
  IF text = <<>> THEN st
  ELSE IF Head(text) = NL
  THEN appendText(
         [st EXCEPT !.htmlBuilder =
                      @ \o <<DivOpen>>
                        \o (IF st.lineBuilder = <<>> THEN <<BR>> ELSE st.lineBuilder)
                        \o <<DivClose>>,
                    !.lineBuilder = <<>>],
         Tail(text))
  ELSE appendText(
         [st EXCEPT !.lineBuilder = @ \o AsItems(formatForDisplay(<<Head(text)>>))],
         Tail(text))

\* Fault variant of renderPart: an inserted newline breaks the line without
\* closing the pending change.
renderPartJoined(st, part) ==
  IF part.type = "equal" THEN appendText(flushPending(st), part.value)
  ELSE IF part.type = "delete"
  THEN [st EXCEPT !.pendingDelete = @ \o part.value]
  ELSE IF part.type = "insert"
  THEN IF part.value = <<NL>>
       THEN appendText(st, part.value)
       ELSE [st EXCEPT !.pendingInsert = @ \o part.value]
  ELSE st

renderPart(st, part) ==
  IF part.type = "equal" THEN appendText(flushPending(st), part.value)
  ELSE IF part.type = "delete"
  THEN [st EXCEPT !.pendingDelete = @ \o part.value]
  ELSE IF part.type = "insert"
  THEN IF part.value = <<NL>>
       THEN appendText(flushPending(st), part.value)
       ELSE [st EXCEPT !.pendingInsert = @ \o part.value]
  ELSE st

RECURSIVE renderLoop(_, _)
renderLoop(st, diffs) ==
  IF diffs = <<>> THEN st ELSE renderLoop(renderPart(st, Head(diffs)), Tail(diffs))

renderDiffs(diffs) ==
  LET st == flushPending(renderLoop(RenderStart, diffs)) IN
  IF st.lineBuilder # <<>>
  THEN IF st.htmlBuilder # <<>>
       THEN st.htmlBuilder \o <<DivOpen>> \o st.lineBuilder \o <<DivClose>>
       ELSE st.lineBuilder
  ELSE st.htmlBuilder

generateInteractiveDiffHtml(originalText, modifiedText) ==
  renderDiffs(computeDiff(originalText, modifiedText))

\* ------------------------------------------------------------------------
\* Diff renderer, src/utils/diffEngine.ts: one builder, no paragraph blocks.
\* ------------------------------------------------------------------------
flushPendingDE(st) ==
  IF st.pendingDelete = <<>> /\ st.pendingInsert = <<>> THEN st
  ELSE LET spanHtml ==
             IF st.pendingInsert # <<>> /\ st.pendingDelete = <<>>
             THEN Span("modified", <<>>, escapeHtml(st.pendingInsert),
                       formatForDisplay(st.pendingInsert))
             ELSE IF st.pendingInsert = <<>> /\ st.pendingDelete # <<>>
             THEN Span("modified", escapeHtml(st.pendingDelete), <<>>, <<>>)
             ELSE Span("modified", escapeHtml(st.pendingDelete),
                       escapeHtml(st.pendingInsert),
                       formatForDisplay(st.pendingInsert))
       IN [st EXCEPT !.htmlBuilder = @ \o <<ZWSP, spanHtml, ZWSP>>,
                     !.pendingDelete = <<>>, !.pendingInsert = <<>>]

renderPartDE(st, part) ==
  IF part.type = "equal"
  THEN [flushPendingDE(st) EXCEPT !.htmlBuilder = @ \o AsItems(formatForDisplay(part.value))]
  ELSE IF part.type = "delete"
  THEN [st EXCEPT !.pendingDelete = @ \o part.value]
  ELSE IF part.type = "insert"
  THEN [st EXCEPT !.pendingInsert = @ \o part.value]
  ELSE st

RECURSIVE renderLoopDE(_, _)
renderLoopDE(st, diffs) ==
  IF diffs = <<>> THEN st ELSE renderLoopDE(renderPartDE(st, Head(diffs)), Tail(diffs))

generateInteractiveDiffHtmlDE(originalText, modifiedText) ==
  flushPendingDE(renderLoopDE(RenderStart, computeDiffDE(originalText, modifiedText))).htmlBuilder

\* ------------------------------------------------------------------------
\* Change-Unit controller: what handleEditorClick does to the clicked span.
\* ------------------------------------------------------------------------
\* str.replace(/\n+$/, '')
RECURSIVE TrimTrailingNewlines(_)
TrimTrailingNewlines(str) ==
  IF str # <<>> /\ str[Len(str)] = NL
  THEN TrimTrailingNewlines(SubSeq(str, 1, Len(str) - 1))
  ELSE str

\* target.innerHTML = escapeHtmlForDisplay(textToShow).replace(/\n/g, '<br>')
DisplayOf(text) == Decode(formatForDisplay(TrimTrailingNewlines(text)))

toggleTarget(target) ==
  IF target.state = "modified"
  THEN [target EXCEPT
          !.state = "original",
          !.inner = IF target.original = <<>> THEN <<MarkerAdded>>
                    ELSE DisplayOf(target.original)]
  ELSE [target EXCEPT
          !.state = "modified",
          !.inner = IF target.modified = <<>> THEN <<MarkerDeleted>>
                    ELSE DisplayOf(target.modified)]

\* ------------------------------------------------------------------------
\* Text of live content (components/Editor).
\* ------------------------------------------------------------------------
\* The text a placeholder shows ("[-]", and "(" three Hangul letters ")").
MarkerText(m) ==
  IF m = MarkerDeleted THEN <<"[", "-", "]">> ELSE <<"(", "K1", "K2", "K3", ")">>

InnerText(tok) ==
  IF tok = "<br>" THEN <<>>
  ELSE IF tok \in {MarkerDeleted, MarkerAdded} THEN MarkerText(tok)
  ELSE <<tok>>

RECURSIVE InnerString(_)
InnerString(inner) ==
  IF inner = <<>> THEN <<>> ELSE InnerText(Head(inner)) \o InnerString(Tail(inner))

\* The character data of an item, as Range.toString() reads it.
ItemString(it) ==
  IF it.tag = "text" THEN <<it.ch>>
  ELSE IF it.tag = "zwsp" THEN <<"ZWSP">>
  ELSE IF it.tag = "span" THEN InnerString(it.inner)
  ELSE <<>>

RECURSIVE RangeToString(_)
RangeToString(items) ==
  IF items = <<>> THEN <<>> ELSE ItemString(Head(items)) \o RangeToString(Tail(items))

\* getCaretGlobalOffset with the caret after the first p items.
getCaretGlobalOffset(html, p) == Len(RangeToString(SubSeq(html, 1, p)))

RECURSIVE TrimStart(_)
TrimStart(str) ==
  IF str # <<>> /\ Head(str) \in SpaceChars THEN TrimStart(Tail(str)) ELSE str

RECURSIVE TrimEnd(_)
TrimEnd(str) ==
  IF str # <<>> /\ str[Len(str)] \in SpaceChars
  THEN TrimEnd(SubSeq(str, 1, Len(str) - 1))
  ELSE str

\* String.prototype.trim
Trim(str) == TrimEnd(TrimStart(str))

\* fragmentToText on one item: </div> and <br> become "\n", tags are
\* stripped (the text inside a span stays, its <br> a "\n"), entities are
\* decoded, zero-width spaces removed.
RECURSIVE InnerPlain(_)
InnerPlain(inner) ==
  IF inner = <<>> THEN <<>>
  ELSE (IF Head(inner) = "<br>" THEN <<NL>> ELSE InnerText(Head(inner)))
       \o InnerPlain(Tail(inner))

ItemPlain(it) ==
  IF it.tag = "text" THEN <<it.ch>>
  ELSE IF it.tag \in {"br", "/div"} THEN <<NL>>
  ELSE IF it.tag = "span" THEN InnerPlain(it.inner)
  ELSE <<>>

RECURSIVE PlainText(_)
PlainText(items) ==
  IF items = <<>> THEN <<>> ELSE ItemPlain(Head(items)) \o PlainText(Tail(items))

fragmentToText(fragment) == Trim(PlainText(fragment))

\* ------------------------------------------------------------------------
\* History (components/Editor).
\* ------------------------------------------------------------------------
HistoryLimit == 100

HistoryState(html, c) == [html |-> html, caret |-> c]

\* Fault variant of saveSnapshot: nothing is dropped at the limit.
saveSnapshotUnbounded(currentHistory, currentIndex, html, c) ==
  LET lastSnapshot == currentHistory[currentIndex + 1] IN
  IF lastSnapshot.html = html /\ lastSnapshot.caret = c
  THEN [history |-> currentHistory, index |-> currentIndex]
  ELSE LET pushed == Append(SubSeq(currentHistory, 1, currentIndex + 1),
                            HistoryState(html, c))
       IN [history |-> pushed, index |-> Len(pushed) - 1]

\* Fault variant of saveSnapshot: the entries after the current one are kept.
saveSnapshotKeepsRedo(currentHistory, currentIndex, html, c) ==
  LET lastSnapshot == currentHistory[currentIndex + 1] IN
  IF lastSnapshot.html = html /\ lastSnapshot.caret = c
  THEN [history |-> currentHistory, index |-> currentIndex]
  ELSE LET pushed == Append(currentHistory, HistoryState(html, c))
           newHistory == IF Len(pushed) > HistoryLimit THEN Tail(pushed) ELSE pushed
       IN [history |-> newHistory, index |-> Len(newHistory) - 1]

\* saveSnapshot: the history and index it leaves.
saveSnapshot(currentHistory, currentIndex, html, c) ==
  LET lastSnapshot == currentHistory[currentIndex + 1] IN
  IF lastSnapshot.html = html /\ lastSnapshot.caret = c
  THEN [history |-> currentHistory, index |-> currentIndex]
  ELSE LET pushed == Append(SubSeq(currentHistory, 1, currentIndex + 1),
                            HistoryState(html, c))
           newHistory == IF Len(pushed) > HistoryLimit THEN Tail(pushed) ELSE pushed
       IN [history |-> newHistory, index |-> Len(newHistory) - 1]

\* ------------------------------------------------------------------------
\* State.
\* ------------------------------------------------------------------------
VARIABLES
  innerHTML,           \* editorRef.current.innerHTML, parsed
  caret,               \* global text offset of the caret
  history,             \* historyRef.current
  historyIndex,        \* historyIndexRef.current (0-based)
  debounce,            \* the pending timer of debounceRef and its arguments
  revs,                \* the runAIRevision calls: position, range, text
  abortControllerRef,  \* 0 (null) or the call whose controller it holds
  isAIProcessing,
  events,              \* the number of editing events so far
  preToggle,           \* observer: the content before a toggle just made
  obs,                 \* observer: typing bursts and the pushes on the history
  build,               \* which diff engine the pure-function runs use
  originalText, modifiedText, diffs, fragment, target, nclicks, pcD,
  selection,           \* the range setCaretGlobalPosition hands to the selection
  currentDoc,          \* App: the id of currentDoc (its content is the editor's)
  documents,           \* App: the stored documents, id -> content
  opened,              \* observer: the history when the open document was selected
  latest               \* observer: the content each document had when it was left

editorVars ==
  <<innerHTML, caret, history, historyIndex, debounce, revs,
    abortControllerRef, isAIProcessing, events, preToggle, obs>>
appVars == <<currentDoc, documents, opened, latest>>
diffVars ==
  <<build, originalText, modifiedText, diffs, fragment, target, nclicks, pcD,
    selection, appVars>>
vars == <<editorVars, diffVars>>

NoToggle == [made |-> FALSE, html |-> <<>>]
\* No document selected since the editor was mounted.
NoOpened == [index |-> -1, history |-> <<>>]
\* No call of setCaretGlobalPosition yet.
NoSelection == [set |-> FALSE, offset |-> 0, at |-> "start", node |-> 0, nodeOffset |-> 0]
\* Observer of the history: whether a burst of typing inputs is open or has
\* just been closed by the timer, the snapshots pushed since the burst
\* opened, and the redo entries the event just handled discarded.
NoBurst == [typing |-> FALSE, ended |-> FALSE, pushes |-> 0, dropped |-> 0]
Pushes(saved) ==
  IF saved = [history |-> history, index |-> historyIndex] THEN 0 ELSE 1
Dropped(saved) ==
  IF saved = [history |-> history, index |-> historyIndex] THEN 0
  ELSE Len(history) - (historyIndex + 1)
ObsEvent(saved) == [NoBurst EXCEPT !.dropped = Dropped(saved)]
ObsTyping(saved) ==
  [typing |-> TRUE, ended |-> FALSE,
   pushes |-> (IF obs.typing THEN obs.pushes ELSE 0) + Pushes(saved),
   dropped |-> Dropped(saved)]
ObsTimer(saved) ==
  [typing |-> FALSE, ended |-> obs.typing,
   pushes |-> IF obs.typing THEN obs.pushes + Pushes(saved) ELSE 0,
   dropped |-> Dropped(saved)]
NoTimer == [active |-> FALSE, html |-> <<>>, caret |-> 0]
Timer(html, c) == [active |-> TRUE, html |-> html, caret |-> c]

Revisions == 1..MaxRevisions
IdleRev ==
  [pc |-> "idle", s |-> 0, e |-> 0, text |-> <<>>, retries |-> 0,
   quiet |-> FALSE, history0 |-> <<>>, index0 |-> 0]
EndedRev(pc) == [IdleRev EXCEPT !.pc = pc]
InFlight(r) == revs[r].pc \in {"awaiting", "backoff"}

\* ------------------------------------------------------------------------
\* Live ranges: how the boundary b of a Range follows a change of content.
\* ------------------------------------------------------------------------
\* n items inserted after the first p items.
AdjInsert(b, p, n) == IF b > p THEN b + n ELSE b
\* Items s+1..e removed.
AdjDelete(b, s, e) == IF b > e THEN b - (e - s) ELSE IF b > s THEN s ELSE b

InsertAt(html, p, items) ==
  SubSeq(html, 1, p) \o items \o SubSeq(html, p + 1, Len(html))
DeleteRange(html, s, e) ==
  SubSeq(html, 1, s) \o SubSeq(html, e + 1, Len(html))

\* Observer: a call stays quiet, and remembers the content and history it
\* was requested on, until another event touches content or history.
Disturbed(rv) ==
  [rv EXCEPT !.quiet = FALSE, !.history0 = <<>>, !.index0 = 0]

\* The ranges of the calls in flight after a change of content.
RevsAfterInsert(p, n) ==
  [r \in Revisions |->
     IF InFlight(r)
     THEN [Disturbed(revs[r]) EXCEPT !.s = AdjInsert(@, p, n), !.e = AdjInsert(@, p, n)]
     ELSE revs[r]]
RevsAfterDelete(s, e) ==
  [r \in Revisions |->
     IF InFlight(r)
     THEN [Disturbed(revs[r]) EXCEPT !.s = AdjDelete(@, s, e), !.e = AdjDelete(@, s, e)]
     ELSE revs[r]]
\* element.innerHTML = html: every node is replaced, every boundary falls
\* to the start of the element.
RevsAfterReplace ==
  [r \in Revisions |->
     IF InFlight(r) THEN [Disturbed(revs[r]) EXCEPT !.s = 0, !.e = 0]
     ELSE revs[r]]
RevsDisturbed ==
  [r \in Revisions |->
     IF InFlight(r) THEN Disturbed(revs[r]) ELSE revs[r]]

\* ------------------------------------------------------------------------
\* Editing events (components/Editor).
\* ------------------------------------------------------------------------
TypedChars == {"b"}

\* Fault variant of undoAnchor: the snapshot is taken on every key.
undoAnchorAlways(p) ==
  saveSnapshot(history, historyIndex, innerHTML, getCaretGlobalOffset(innerHTML, p))

\* handleKeyDown, the undo anchor of a printing, Backspace, Delete or Enter
\* key pressed with the caret after the first p items.
undoAnchor(p) ==
  LET topHistory == history[historyIndex + 1]
      currentCaret == getCaretGlobalOffset(innerHTML, p)
  IN IF innerHTML = topHistory.html /\ currentCaret # topHistory.caret
     THEN saveSnapshot(history, historyIndex, innerHTML, currentCaret)
     ELSE [history |-> history, index |-> historyIndex]

\* handleInput: the timer it leaves pending.
handleInput(html, c) == Timer(html, c)

\* A printing key: handleKeyDown, the browser's insertion, handleInput.
TypeChar(c, p) ==
  /\ events < MaxEvents
  /\ LET anchored == undoAnchor(p)
         html == InsertAt(innerHTML, p, <<Text(c)>>)
     IN /\ history' = anchored.history
        /\ historyIndex' = anchored.index
        /\ innerHTML' = html
        /\ caret' = getCaretGlobalOffset(html, p + 1)
        /\ debounce' = handleInput(html, getCaretGlobalOffset(html, p + 1))
        /\ revs' = RevsAfterInsert(p, 1)
  /\ events' = events + 1
  /\ preToggle' = NoToggle
  /\ obs' = ObsTyping(undoAnchor(p))
  /\ UNCHANGED <<abortControllerRef, isAIProcessing, diffVars>>

\* Backspace with the caret after the first p items: the item before the
\* caret goes.
Backspace(p) ==
  /\ events < MaxEvents
  /\ p >= 1
  /\ LET anchored == undoAnchor(p)
         html == DeleteRange(innerHTML, p - 1, p)
     IN /\ history' = anchored.history
        /\ historyIndex' = anchored.index
        /\ innerHTML' = html
        /\ caret' = getCaretGlobalOffset(html, p - 1)
        /\ debounce' = handleInput(html, getCaretGlobalOffset(html, p - 1))
        /\ revs' = RevsAfterDelete(p - 1, p)
  /\ events' = events + 1
  /\ preToggle' = NoToggle
  /\ obs' = ObsEvent(undoAnchor(p))
  /\ UNCHANGED <<abortControllerRef, isAIProcessing, diffVars>>

\* handlePaste: the lines of the pasted text, each in a <div> (an empty
\* line holds a <br>), as HTML.
RECURSIVE paragraphs(_)
paragraphs(text) ==
  LET k == FirstNL(text)
      line == SubSeq(text, 1, k - 1)
      block == <<DivOpen>>
               \o (IF line = <<>> THEN <<BR>>
                   ELSE [i \in 1..Len(line) |-> Text(EscapeChar(line[i]))])
               \o <<DivClose>>
  IN IF k > Len(text) THEN block
     ELSE block \o paragraphs(SubSeq(text, k + 1, Len(text)))

PastedTexts == {<<"&">>}

\* handlePaste with the caret after the first p items: insertHTML, then
\* handleInput.  No snapshot is taken.
handlePaste(text, p) ==
  /\ events < MaxEvents
  /\ text # <<>>
  /\ LET htmlContent == paragraphs(text)
         html == InsertAt(innerHTML, p, Parse(htmlContent))
         c == getCaretGlobalOffset(html, p + Len(htmlContent))
     IN /\ innerHTML' = html
        /\ caret' = c
        /\ debounce' = handleInput(html, c)
        /\ revs' = RevsAfterInsert(p, Len(htmlContent))
  /\ events' = events + 1
  /\ preToggle' = NoToggle
  /\ obs' = NoBurst
  /\ UNCHANGED <<history, historyIndex, abortControllerRef, isAIProcessing, diffVars>>

\* The text of a TEXT snippet, "[{|}]", on either side of its cursor marker.
SnippetBefore == <<"[">>
SnippetAfter == <<"]">>

\* handleKeyDown on the trigger of a TEXT snippet, the caret after the first
\* p items: a snapshot, insertHTML, the caret put at the marker, handleInput.
expandSnippet(p) ==
  /\ events < MaxEvents
  /\ LET saved == saveSnapshot(history, historyIndex, innerHTML,
                               getCaretGlobalOffset(innerHTML, p))
         htmlToInsert == [i \in 1..Len(SnippetBefore \o SnippetAfter) |->
                            Text(EscapeChar((SnippetBefore \o SnippetAfter)[i]))]
         html == InsertAt(innerHTML, p, Parse(htmlToInsert))
         c == getCaretGlobalOffset(html, p + Len(SnippetBefore))
     IN /\ history' = saved.history
        /\ historyIndex' = saved.index
        /\ obs' = ObsEvent(saved)
        /\ innerHTML' = html
        /\ caret' = c
        /\ debounce' = handleInput(html, c)
        /\ revs' = RevsAfterInsert(p, Len(htmlToInsert))
  /\ events' = events + 1
  /\ preToggle' = NoToggle
  /\ UNCHANGED <<abortControllerRef, isAIProcessing, diffVars>>

\* The 500 ms timer of handleInput fires.
DebounceFires ==
  /\ debounce.active
  /\ LET saved == saveSnapshot(history, historyIndex, debounce.html, debounce.caret)
     IN /\ history' = saved.history
        /\ historyIndex' = saved.index
        /\ obs' = ObsTimer(saved)
  /\ debounce' = NoTimer
  /\ revs' = RevsDisturbed
  /\ UNCHANGED <<innerHTML, caret, abortControllerRef, isAIProcessing,
                 events, preToggle, diffVars>>

\* setCaretGlobalPosition: the offset the caret ends at.
setCaretGlobalPosition(html, offset) ==
  IF offset <= Len(RangeToString(html)) THEN offset ELSE Len(RangeToString(html))

\* The text nodes under the element in document order, each by its length.
\* Consecutive characters of one parent are one text node; an element (a
\* <br>, a line <div>, a Change Unit, a placeholder) ends the node before it.
Boundary == "|"
InnerMarks(tok) ==
  IF tok = "<br>" THEN <<Boundary>>
  ELSE IF tok \in {MarkerDeleted, MarkerAdded}
  THEN <<Boundary>> \o [i \in 1..Len(MarkerText(tok)) |-> "c"] \o <<Boundary>>
  ELSE <<"c">>

RECURSIVE InnerMarksOf(_)
InnerMarksOf(inner) ==
  IF inner = <<>> THEN <<>>
  ELSE InnerMarks(Head(inner)) \o InnerMarksOf(Tail(inner))

ItemMarks(it) ==
  IF it.tag \in {"text", "zwsp"} THEN <<"c">>
  ELSE IF it.tag = "span" THEN <<Boundary>> \o InnerMarksOf(it.inner) \o <<Boundary>>
  ELSE <<Boundary>>

RECURSIVE Marks(_)
Marks(html) ==
  IF html = <<>> THEN <<>> ELSE ItemMarks(Head(html)) \o Marks(Tail(html))

RECURSIVE RunLengths(_, _)
RunLengths(marks, run) ==
  IF marks = <<>> THEN (IF run > 0 THEN <<run>> ELSE <<>>)
  ELSE IF Head(marks) = "c" THEN RunLengths(Tail(marks), run + 1)
  ELSE (IF run > 0 THEN <<run>> ELSE <<>>) \o RunLengths(Tail(marks), 0)

textNodes(html) == RunLengths(Marks(html), 0)

\* placeCaretAtEnd: selectNodeContents(el), collapse(false).
placeCaretAtEnd ==
  [at |-> "end", node |-> 0, nodeOffset |-> 0]

\* Fault variant of createRange: the node must pass the target.
RECURSIVE createRangeBeyond(_, _, _, _)
createRangeBeyond(nodes, i, charCount, targetOffset) ==
  IF i > Len(nodes) THEN placeCaretAtEnd
  ELSE IF charCount + nodes[i] > targetOffset
  THEN [at |-> "text", node |-> i, nodeOffset |-> targetOffset - charCount]
  ELSE createRangeBeyond(nodes, i + 1, charCount + nodes[i], targetOffset)

\* createRange over the text nodes from node i on, charCount characters
\* counted so far; not found is the fallback of the caller.
RECURSIVE createRange(_, _, _, _)
createRange(nodes, i, charCount, targetOffset) ==
  IF i > Len(nodes) THEN placeCaretAtEnd
  ELSE IF charCount + nodes[i] >= targetOffset
  THEN [at |-> "text", node |-> i, nodeOffset |-> targetOffset - charCount]
  ELSE createRange(nodes, i + 1, charCount + nodes[i], targetOffset)

\* setCaretGlobalPosition: the range it adds to the selection.
setCaretGlobalPositionRange(html, offset) ==
  IF offset = 0 THEN [at |-> "start", node |-> 0, nodeOffset |-> 0]
  ELSE createRange(textNodes(html), 1, 0, offset)

\* setCaretGlobalPosition(editorRef.current, offset) on the current content.
PlaceCaret(offset) ==
  /\ LET range == setCaretGlobalPositionRange(innerHTML, offset) IN
       selection' = [set |-> TRUE, offset |-> offset, at |-> range.at,
                     node |-> range.node, nodeOffset |-> range.nodeOffset]
  /\ caret' = setCaretGlobalPosition(innerHTML, offset)
  /\ UNCHANGED <<innerHTML, history, historyIndex, debounce, revs,
                 abortControllerRef, isAIProcessing, events, preToggle, obs,
                 build, originalText, modifiedText, diffs, fragment, target,
                 nclicks, pcD, appVars>>

\* Fault variant of undo: the guard admits the first entry.
undoFromFirst ==
  /\ events < MaxEvents
  /\ events' = events + 1
  /\ LET prevState == history[Max(historyIndex, 1)] IN
     /\ debounce' = NoTimer
     /\ historyIndex' = Max(historyIndex - 1, 0)
     /\ innerHTML' = prevState.html
     /\ caret' = setCaretGlobalPosition(prevState.html, prevState.caret)
     /\ revs' = RevsAfterReplace
  /\ preToggle' = NoToggle
  /\ obs' = NoBurst
  /\ UNCHANGED <<history, abortControllerRef, isAIProcessing, diffVars>>

undo ==
  /\ events < MaxEvents
  /\ events' = events + 1
  /\ IF historyIndex > 0
     THEN LET prevState == history[historyIndex] IN
          /\ debounce' = NoTimer
          /\ historyIndex' = historyIndex - 1
          /\ innerHTML' = prevState.html
          /\ caret' = setCaretGlobalPosition(prevState.html, prevState.caret)
          /\ revs' = RevsAfterReplace
     ELSE UNCHANGED <<debounce, historyIndex, innerHTML, caret, revs>>
  /\ preToggle' = NoToggle
  /\ obs' = NoBurst
  /\ UNCHANGED <<history, abortControllerRef, isAIProcessing, diffVars>>

\* Fault variant of redo: the caret is not restored.
redoKeepsCaret ==
  /\ events < MaxEvents
  /\ events' = events + 1
  /\ IF historyIndex < Len(history) - 1
     THEN LET nextState == history[historyIndex + 2] IN
          /\ debounce' = NoTimer
          /\ historyIndex' = historyIndex + 1
          /\ innerHTML' = nextState.html
          /\ caret' = caret
          /\ revs' = RevsAfterReplace
     ELSE UNCHANGED <<debounce, historyIndex, innerHTML, caret, revs>>
  /\ preToggle' = NoToggle
  /\ obs' = NoBurst
  /\ UNCHANGED <<history, abortControllerRef, isAIProcessing, diffVars>>

redo ==
  /\ events < MaxEvents
  /\ events' = events + 1
  /\ IF historyIndex < Len(history) - 1
     THEN LET nextState == history[historyIndex + 2] IN
          /\ debounce' = NoTimer
          /\ historyIndex' = historyIndex + 1
          /\ innerHTML' = nextState.html
          /\ caret' = setCaretGlobalPosition(nextState.html, nextState.caret)
          /\ revs' = RevsAfterReplace
     ELSE UNCHANGED <<debounce, historyIndex, innerHTML, caret, revs>>
  /\ preToggle' = NoToggle
  /\ obs' = NoBurst
  /\ UNCHANGED <<history, abortControllerRef, isAIProcessing, diffVars>>

\* handleEditorClick on the span that is item i; the click leaves the caret
\* after the first p items, next to the span.
handleEditorClick(i, p) ==
  /\ events < MaxEvents
  /\ innerHTML[i].tag = "span"
  /\ p \in {i - 1, i}
  /\ LET saved == saveSnapshot(history, historyIndex, innerHTML,
                               getCaretGlobalOffset(innerHTML, p))
         html == [innerHTML EXCEPT ![i] = toggleTarget(@)]
     IN /\ history' = saved.history
        /\ historyIndex' = saved.index
        /\ obs' = ObsEvent(saved)
        /\ innerHTML' = html
        /\ caret' = getCaretGlobalOffset(html, p)
        /\ debounce' = handleInput(html, getCaretGlobalOffset(html, p))
  /\ preToggle' = [made |-> TRUE, html |-> innerHTML]
  /\ events' = events + 1
  /\ revs' = RevsDisturbed
  /\ UNCHANGED <<abortControllerRef, isAIProcessing, diffVars>>

\* ------------------------------------------------------------------------
\* AI revision (components/Editor runAIRevision, services/geminiService).
\* ------------------------------------------------------------------------
Retries == 3
Replies == {<<"a">>, <<"b">>}

\* The slot of the next call.
NextRev ==
  CHOOSE r \in Revisions :
    revs[r].pc = "idle" /\ \A q \in 1..(r - 1) : revs[q].pc # "idle"

\* runAIRevision up to its await, on the range of items s+1..e.
runAIRevision(s, e) ==
  /\ \E r \in Revisions : revs[r].pc = "idle"
  /\ events < MaxEvents
  /\ events' = events + 1
  /\ 0 <= s /\ s < e /\ e <= Len(innerHTML)
  /\ LET r == NextRev
         saved == saveSnapshot(history, historyIndex, innerHTML,
                               getCaretGlobalOffset(innerHTML, e))
         textToRevise == fragmentToText(SubSeq(innerHTML, s + 1, e))
     IN /\ history' = saved.history
        /\ historyIndex' = saved.index
        /\ obs' = ObsEvent(saved)
        /\ IF Trim(textToRevise) = <<>>
           THEN \* throw new Error("No text selected"): catch, finally
                /\ revs' = [RevsDisturbed EXCEPT ![r] = EndedRev("rejected")]
                /\ abortControllerRef' = 0
                /\ isAIProcessing' = FALSE
           ELSE /\ revs' = [RevsDisturbed EXCEPT ![r] =
                              [pc |-> "awaiting", s |-> s, e |-> e,
                               text |-> textToRevise, retries |-> Retries,
                               quiet |-> TRUE,
                               history0 |-> history, index0 |-> historyIndex]]
                /\ abortControllerRef' = r
                /\ isAIProcessing' = TRUE
  /\ debounce' = NoTimer
  /\ caret' = getCaretGlobalOffset(innerHTML, e)
  /\ preToggle' = NoToggle
  /\ UNCHANGED <<innerHTML, diffVars>>

\* A revision button of the tooltip, which is rendered when the selection
\* has text and no revision is processing.
tooltipRevision(s, e) ==
  /\ ~isAIProcessing
  /\ 0 <= s /\ s < e /\ e <= Len(innerHTML)
  /\ Trim(RangeToString(SubSeq(innerHTML, s + 1, e))) # <<>>
  /\ runAIRevision(s, e)

\* handleKeyDown on the trigger of an AI_COMMAND snippet, the selection not
\* collapsed.
shortcutRevision(s, e) == runAIRevision(s, e)

\* generateRevision: response.text?.trim() || text.
revisedTextOf(reply, text) == IF Trim(reply) = <<>> THEN text ELSE Trim(reply)

\* The provider resolves: the splice, the post-snapshot, finally.
providerResolves(r, reply) ==
  /\ revs[r].pc = "awaiting"
  /\ LET rv == revs[r]
         diffHtml == generateInteractiveDiffHtml(rv.text, revisedTextOf(reply, rv.text))
         frag == Parse(diffHtml)
         html == InsertAt(DeleteRange(innerHTML, rv.s, rv.e), rv.s, frag)
         c == IF frag = <<>> THEN 0 ELSE getCaretGlobalOffset(html, rv.s + Len(frag))
         saved == saveSnapshot(history, historyIndex, html, c)
     IN /\ innerHTML' = html
        /\ caret' = c
        /\ history' = saved.history
        /\ historyIndex' = saved.index
        /\ obs' = ObsEvent(saved)
        /\ revs' = [q \in Revisions |->
                      IF q = r THEN EndedRev("applied")
                      ELSE IF InFlight(q)
                      THEN [Disturbed(revs[q]) EXCEPT
                              !.s = AdjInsert(AdjDelete(@, rv.s, rv.e), rv.s, Len(frag)),
                              !.e = AdjInsert(AdjDelete(@, rv.s, rv.e), rv.s, Len(frag))]
                      ELSE revs[q]]
  /\ abortControllerRef' = 0
  /\ isAIProcessing' = FALSE
  /\ preToggle' = NoToggle
  /\ UNCHANGED <<debounce, events, diffVars>>

\* The provider call fails: retryWithBackoff waits and tries again on a
\* network or server error while attempts are left, and throws otherwise.
providerFails(r, retriable) ==
  /\ revs[r].pc = "awaiting"
  /\ retriable => Retries - revs[r].retries < MaxTransient
  /\ IF retriable /\ revs[r].retries > 0
     THEN /\ revs' = [revs EXCEPT ![r].pc = "backoff"]
          /\ UNCHANGED <<abortControllerRef, isAIProcessing>>
     ELSE /\ revs' = [revs EXCEPT ![r] = EndedRev("failed")]
          /\ abortControllerRef' = 0
          /\ isAIProcessing' = FALSE
  /\ UNCHANGED <<innerHTML, caret, history, historyIndex, debounce, events,
                 preToggle, obs, diffVars>>

\* wait(delay, signal) resolves.
backoffElapses(r) ==
  /\ revs[r].pc = "backoff"
  /\ revs' = [revs EXCEPT ![r].pc = "awaiting", ![r].retries = @ - 1]
  /\ UNCHANGED <<innerHTML, caret, history, historyIndex, debounce,
                 abortControllerRef, isAIProcessing, events, preToggle, obs,
                 diffVars>>

\* Fault variant of cancelOperation: the cancelled call has already removed
\* the selected content.
cancelOperationWrites ==
  /\ isAIProcessing
  /\ events < MaxEvents
  /\ events' = events + 1
  /\ abortControllerRef # 0
  /\ innerHTML' = DeleteRange(innerHTML, revs[abortControllerRef].s,
                              revs[abortControllerRef].e)
  /\ revs' = [revs EXCEPT ![abortControllerRef] = EndedRev("cancelled")]
  /\ abortControllerRef' = 0
  /\ isAIProcessing' = FALSE
  /\ UNCHANGED <<caret, history, historyIndex, debounce, preToggle, diffVars>>
  /\ obs' = NoBurst

\* The Stop button (shown while processing): cancelOperation aborts the
\* controller of abortControllerRef; raceWithSignal or wait rejects, and the
\* call runs its catch and finally.
cancelOperation ==
  /\ isAIProcessing
  /\ events < MaxEvents
  /\ events' = events + 1
  /\ IF abortControllerRef # 0
     THEN /\ revs' = [revs EXCEPT ![abortControllerRef] = EndedRev("cancelled")]
          /\ abortControllerRef' = 0
          /\ isAIProcessing' = FALSE
     ELSE UNCHANGED <<revs, abortControllerRef, isAIProcessing>>
  /\ UNCHANGED <<innerHTML, caret, history, historyIndex, debounce,
                 preToggle, diffVars>>
  /\ obs' = NoBurst

\* ------------------------------------------------------------------------
\* The editor.
\* ------------------------------------------------------------------------
\* The content the editor is opened on: plain text, or text saved with a
\* Change Unit in it.
InitialContents ==
  { <<Text("a"), Text(" ")>>,
    Parse(generateInteractiveDiffHtml(<<"a">>, <<"b">>)) }

\* The editor alone, no App around it.
AppIdle ==
  /\ currentDoc = 0 /\ documents = <<>> /\ opened = NoOpened /\ latest = <<>>

DiffIdle ==
  /\ build = "none" /\ originalText = <<>> /\ modifiedText = <<>>
  /\ diffs = <<>> /\ fragment = <<>> /\ target = 0 /\ nclicks = 0 /\ pcD = "off"
  /\ selection = NoSelection

Init ==
  /\ innerHTML \in InitialContents
  /\ caret = 0
  /\ history = <<HistoryState(innerHTML, 0)>>
  /\ historyIndex = 0
  /\ debounce = NoTimer
  /\ revs = [r \in Revisions |-> IdleRev]
  /\ abortControllerRef = 0
  /\ isAIProcessing = FALSE
  /\ events = 0
  /\ preToggle = NoToggle
  /\ obs = NoBurst
  /\ DiffIdle
  /\ AppIdle

Next ==
  \/ \E c \in TypedChars, p \in 0..Len(innerHTML) : TypeChar(c, p)
  \/ \E p \in 0..Len(innerHTML) : Backspace(p)
  \/ DebounceFires
  \/ undo
  \/ redo
  \/ \E i \in 1..Len(innerHTML), p \in 0..Len(innerHTML) : handleEditorClick(i, p)
  \/ \E s \in 0..Len(innerHTML), e \in 0..Len(innerHTML) : tooltipRevision(s, e)
  \/ \E s \in 0..Len(innerHTML), e \in 0..Len(innerHTML) : shortcutRevision(s, e)
  \/ \E r \in Revisions, reply \in Replies : providerResolves(r, reply)
  \/ \E r \in Revisions, retriable \in BOOLEAN : providerFails(r, retriable)
  \/ \E r \in Revisions : backoffElapses(r)
  \/ cancelOperation

Spec == Init /\ [][Next]_vars

\* ------------------------------------------------------------------------
\* The editor under its structural events: typing, Backspace, paste,
\* snippet expansion and revisions requested from the tooltip.
\* ------------------------------------------------------------------------
InitEvents ==
  /\ innerHTML = <<Text("a")>>
  /\ caret = 0
  /\ history = <<HistoryState(innerHTML, 0)>>
  /\ historyIndex = 0
  /\ debounce = NoTimer
  /\ revs = [r \in Revisions |-> IdleRev]
  /\ abortControllerRef = 0
  /\ isAIProcessing = FALSE
  /\ events = 0
  /\ preToggle = NoToggle
  /\ obs = NoBurst
  /\ DiffIdle
  /\ AppIdle

NextEvents ==
  \/ \E c \in TypedChars, p \in 0..Len(innerHTML) : TypeChar(c, p)
  \/ \E p \in 0..Len(innerHTML) : Backspace(p)
  \/ DebounceFires
  \/ \E text \in PastedTexts, p \in 0..Len(innerHTML) : handlePaste(text, p)
  \/ \E p \in 0..Len(innerHTML) : expandSnippet(p)
  \/ \E s \in 0..Len(innerHTML), e \in 0..Len(innerHTML) : tooltipRevision(s, e)
  \/ \E r \in Revisions, reply \in Replies : providerResolves(r, reply)

SpecEvents == InitEvents /\ [][NextEvents]_vars

\* ------------------------------------------------------------------------
\* The diff pipeline on its own: two texts are diffed, the diff is rendered
\* and parsed, and the Change Units of the result are clicked.  build says
\* which version of utils/diffEngine does the work.
\* ------------------------------------------------------------------------
Builds == {"part_004", "diffEngine.ts"}

computeDiffOf(b, original, modified) ==
  IF b = "part_004" THEN computeDiff(original, modified)
  ELSE computeDiffDE(original, modified)

generateOf(b, original, modified) ==
  IF b = "part_004" THEN generateInteractiveDiffHtml(original, modified)
  ELSE generateInteractiveDiffHtmlDE(original, modified)

EditorIdle ==
  /\ innerHTML = <<>> /\ caret = 0
  /\ history = <<HistoryState(<<>>, 0)>> /\ historyIndex = 0
  /\ debounce = NoTimer
  /\ revs = [r \in Revisions |-> IdleRev]
  /\ abortControllerRef = 0 /\ isAIProcessing = FALSE
  /\ events = 0 /\ preToggle = NoToggle /\ obs = NoBurst

\* The texts of a revision of two lines that appends a third one.  The
\* characters are Hangul syllables (written here by their sounds), a space
\* and a full stop: none of them is a \w character of the pattern.
Sentence(word) == <<"mun", "jang", " ">> \o word \o <<".">>
ScenarioOriginal == Sentence(<<"ha", "na">>) \o <<NL>> \o Sentence(<<"dul">>)
ScenarioRevised == ScenarioOriginal \o <<NL>> \o Sentence(<<"set">>)

InitDiff ==
  /\ EditorIdle
  /\ build \in Builds
  /\ \/ originalText \in Strings /\ modifiedText \in Strings
     \/ originalText = ScenarioOriginal /\ modifiedText = ScenarioRevised
  /\ diffs = <<>> /\ fragment = <<>> /\ target = 0 /\ nclicks = 0
  /\ pcD = "texts"
  /\ selection = NoSelection
  /\ AppIdle

ComputeDiff ==
  /\ pcD = "texts"
  /\ diffs' = computeDiffOf(build, originalText, modifiedText)
  /\ pcD' = "diffed"
  /\ UNCHANGED <<editorVars, build, originalText, modifiedText, fragment, target,
                 nclicks, selection, appVars>>

\* tempDiv.innerHTML = generateInteractiveDiffHtml(textToRevise, revisedText)
Render ==
  /\ pcD = "diffed"
  /\ fragment' = Parse(generateOf(build, originalText, modifiedText))
  /\ pcD' = "rendered"
  /\ UNCHANGED <<editorVars, build, originalText, modifiedText, diffs, target,
                 nclicks, selection, appVars>>

\* A click on the Change Unit that is item i of the fragment; the clicks of
\* a run all go to the same unit.
Click(i) ==
  /\ pcD = "rendered"
  /\ nclicks < MaxClicks
  /\ fragment[i].tag = "span"
  /\ target \in {0, i}
  /\ fragment' = [fragment EXCEPT ![i] = toggleTarget(@)]
  /\ target' = i
  /\ nclicks' = nclicks + 1
  /\ UNCHANGED <<editorVars, build, originalText, modifiedText, diffs, pcD,
                 selection, appVars>>

NextDiff ==
  \/ ComputeDiff
  \/ Render
  \/ \E i \in 1..Len(fragment) : Click(i)

SpecDiff == InitDiff /\ [][NextDiff]_vars

\* ------------------------------------------------------------------------
\* The caret placed by offset on contents with several text nodes: the
\* editor holding a rendered revision, offsets from 0 to beyond the text.
\* ------------------------------------------------------------------------
MaxBeyond == 2
CaretContents ==
  {Parse(generateInteractiveDiffHtml(o, m)) : o \in Strings, m \in Strings}

InitCaret ==
  /\ innerHTML \in CaretContents
  /\ caret = 0
  /\ history = <<HistoryState(innerHTML, 0)>>
  /\ historyIndex = 0
  /\ debounce = NoTimer
  /\ revs = [r \in Revisions |-> IdleRev]
  /\ abortControllerRef = 0
  /\ isAIProcessing = FALSE
  /\ events = 0
  /\ preToggle = NoToggle
  /\ obs = NoBurst
  /\ DiffIdle
  /\ AppIdle

NextCaret ==
  \E offset \in 0..(Len(RangeToString(innerHTML)) + MaxBeyond) : PlaceCaret(offset)

SpecCaret == InitCaret /\ [][NextCaret]_vars

\* ------------------------------------------------------------------------
\* The App around the editor: two stored documents, one Editor element for
\* whichever is open, the auto-save timer.  currentDoc.content is the
\* editor's content: every handler that changes the content calls onChange,
\* and a selected document's content is written into the editor.
\* ------------------------------------------------------------------------
DocIds == {1, 2}
InitialDocuments == <<<<Text("a")>>, <<Text("&")>>>>

\* handleSelectDoc(id) for another document and the effects it triggers in
\* the Editor, which stays mounted: the content is written into the
\* element, the history is re-seeded only if it holds one entry, the
\* pending snapshot timer is left alone.  The auto-save effect drops the
\* pending save of the document left and arms one for the document loaded.
SelectDoc(id) ==
  /\ events < MaxEvents
  /\ events' = events + 1
  /\ id \in DocIds /\ id # currentDoc
  /\ LET content == documents[id]
         seeded == Len(history) = 1 /\ history[1].html # content /\ historyIndex = 0
     IN /\ currentDoc' = id
        /\ innerHTML' = content
        /\ caret' = IF content = innerHTML THEN caret ELSE 0
        /\ revs' = IF content = innerHTML THEN revs ELSE RevsAfterReplace
        /\ history' = IF seeded THEN <<HistoryState(content, 0)>> ELSE history
        /\ opened' = IF seeded THEN NoOpened
                     ELSE [index |-> historyIndex, history |-> history]
  /\ latest' = [latest EXCEPT ![currentDoc] = innerHTML]
  /\ preToggle' = NoToggle
  /\ obs' = NoBurst
  /\ UNCHANGED <<historyIndex, debounce, abortControllerRef, isAIProcessing,
                 documents, build, originalText, modifiedText, diffs, fragment,
                 target, nclicks, pcD, selection>>

\* The auto-save timer fires: StorageService.saveDocument(currentDoc).
AutosaveFires ==
  /\ documents[currentDoc] # innerHTML
  /\ documents' = [documents EXCEPT ![currentDoc] = innerHTML]
  /\ UNCHANGED <<editorVars, build, originalText, modifiedText, diffs, fragment,
                 target, nclicks, pcD, selection, currentDoc, opened, latest>>

InitApp ==
  /\ currentDoc = 1
  /\ documents = InitialDocuments
  /\ opened = NoOpened
  /\ latest = InitialDocuments
  /\ innerHTML = documents[currentDoc]
  /\ caret = 0
  /\ history = <<HistoryState(innerHTML, 0)>>
  /\ historyIndex = 0
  /\ debounce = NoTimer
  /\ revs = [r \in Revisions |-> IdleRev]
  /\ abortControllerRef = 0
  /\ isAIProcessing = FALSE
  /\ events = 0
  /\ preToggle = NoToggle
  /\ obs = NoBurst
  /\ DiffIdle

NextApp ==
  \/ \E c \in TypedChars, p \in 0..Len(innerHTML) : TypeChar(c, p)
  \/ DebounceFires
  \/ undo
  \/ redo
  \/ \E id \in DocIds : SelectDoc(id)
  \/ AutosaveFires

SpecApp == InitApp /\ [][NextApp]_vars

\* The timers are timers of the browser: a pending one fires.
SpecAppFair ==
  SpecApp /\ WF_vars(AutosaveFires) /\ WF_vars(DebounceFires)

\* ------------------------------------------------------------------------
\* The history near its capacity: the editor after n - 1 saved edits (a
\* character typed, then erased, then typed again ...), n up to the limit.
\* ------------------------------------------------------------------------
EditedContent(k) == IF k % 2 = 0 THEN <<>> ELSE <<Text("b")>>

EditedHistory(n) ==
  [k \in 1..n |-> HistoryState(EditedContent(k - 1), Len(EditedContent(k - 1)))]

InitHistory ==
  /\ \E n \in 1..HistoryLimit :
       /\ history = EditedHistory(n)
       /\ historyIndex = n - 1
       /\ innerHTML = EditedContent(n - 1)
       /\ caret = Len(EditedContent(n - 1))
  /\ debounce = NoTimer
  /\ revs = [r \in Revisions |-> IdleRev]
  /\ abortControllerRef = 0
  /\ isAIProcessing = FALSE
  /\ events = 0
  /\ preToggle = NoToggle
  /\ obs = NoBurst
  /\ DiffIdle
  /\ AppIdle

NextHistory ==
  \/ \E c \in TypedChars, p \in 0..Len(innerHTML) : TypeChar(c, p)
  \/ \E p \in 0..Len(innerHTML) : Backspace(p)
  \/ DebounceFires
  \/ undo
  \/ redo

SpecHistory == InitHistory /\ [][NextHistory]_vars

\* ------------------------------------------------------------------------
\* Properties.
\* ------------------------------------------------------------------------
\* C1: a revision attempt that ends in cancellation or in a provider failure
\* never writes to the document: no step of the attempt other than the
\* splice of a resolved call (its start, a failed try, a back-off, its
\* cancellation, its rejection) changes the content.
C1_FailedAttemptWritesNothing ==
  [][\A r \in Revisions :
       (revs'[r].pc # revs[r].pc /\ revs'[r].pc # "applied")
         => innerHTML' = innerHTML]_vars

\* One call was cancelled and another failed, on a document with content.
C1_Witness ==
  /\ \E r \in Revisions : revs[r].pc = "cancelled"
  /\ \E r \in Revisions : revs[r].pc = "failed"
  /\ innerHTML # <<>>

\* C2: when a revision is cancelled before the provider resolves, with no
\* other event between the request and the cancellation, the history (its
\* entries and its current index) is what it was before the request.
C2_CancelLeavesHistory ==
  [][\A r \in Revisions :
       (InFlight(r) /\ revs[r].quiet /\ revs'[r].pc = "cancelled")
         => (history' = revs[r].history0 /\ historyIndex' = revs[r].index0)]_vars

\* The values of the operations of ds whose type is in types, concatenated.
RECURSIVE ValuesOf(_, _)
ValuesOf(ds, types) ==
  IF ds = <<>> THEN <<>>
  ELSE (IF Head(ds).type \in types THEN Head(ds).value ELSE <<>>)
       \o ValuesOf(Tail(ds), types)

\* C3: in the diff of a against b, the Equal and Delete values concatenated
\* in order are a, and the Equal and Insert values concatenated are b.
C3_RoundTrip ==
  pcD \in {"diffed", "rendered"} =>
    /\ ValuesOf(diffs, {"equal", "delete"}) = originalText
    /\ ValuesOf(diffs, {"equal", "insert"}) = modifiedText

\* A diff with operations of all three types, over a text with a newline.
C3_Witness ==
  /\ pcD = "diffed"
  /\ {diffs[i].type : i \in 1..Len(diffs)} = {"equal", "delete", "insert"}
  /\ \E i \in 1..Len(modifiedText) : modifiedText[i] = NL

\* The range of call r no longer holds the text the call was made on.
Stale(r) ==
  fragmentToText(SubSeq(innerHTML, revs[r].s + 1, revs[r].e)) # revs[r].text

\* C4: when the provider resolves for a call whose range no longer
\* designates the originally selected text, the splice is aborted: the
\* document and the history are left as they are.
C4_StaleRangeAborts ==
  [][\A r \in Revisions :
       (revs[r].pc = "awaiting" /\ Stale(r) /\ revs'[r].pc = "applied")
         => (innerHTML' = innerHTML /\ history' = history
             /\ historyIndex' = historyIndex)]_vars

\* C5: at most one revision is in flight at any time.
C5_OneInFlight ==
  Cardinality({r \in Revisions : InFlight(r)}) <= 1

\* C6: every revision in flight is within reach of the cancellation signal:
\* the Stop control is shown and cancelOperation aborts that revision.
C6_CancelReachesInFlight ==
  \A r \in Revisions : InFlight(r) => (isAIProcessing /\ abortControllerRef = r)

\* C7: an undo issued right after a toggle, whether or not the debounce
\* timer has fired in between, restores the pre-toggle document.
C7_ToggleUndoable ==
  [][(preToggle.made /\ undo) => innerHTML' = preToggle.html]_vars

\* C8: two consecutive activations of a Change Unit return the unit to the
\* displayState and the displayed content the renderer produced.
C8_ToggleTwice ==
  (pcD = "rendered" /\ nclicks = 2)
    => fragment = Parse(generateOf(build, originalText, modifiedText))

\* C9: no Change Unit of a rendered diff shows a newline, raw or as an
\* inline line break, in its Revised-state content.
C9_NoNewlineInUnit ==
  (pcD = "rendered" /\ nclicks = 0) =>
    \A i \in 1..Len(fragment) :
      fragment[i].tag = "span" =>
        \A k \in 1..Len(fragment[i].inner) :
          fragment[i].inner[k] \notin {NL, "<br>"}

C11_LinearUndo ==
  [][/\ (obs'.dropped > 0 /\ historyIndex < Len(history) - 1) =>
          /\ Len(history') = historyIndex + 2
          /\ SubSeq(history', 1, historyIndex + 1) = SubSeq(history, 1, historyIndex + 1)
          /\ historyIndex' = Len(history') - 1
     /\ (obs.dropped > 0 /\ redo) =>
          UNCHANGED <<history, historyIndex, innerHTML, caret>>]_vars

\* A push has just discarded redo entries.
C11_Witness ==
  /\ obs.dropped > 0
  /\ historyIndex = Len(history) - 1
  /\ Len(history) >= 2

\* C12: undo at the first entry and redo at the last entry change neither
\* the history, nor the index, nor the document; and the index always lies
\* within the history.
C12_UndoRedoAtEnds ==
  /\ [](historyIndex \in 0..(Len(history) - 1))
  /\ [][/\ (undo /\ historyIndex = 0) =>
             UNCHANGED <<history, historyIndex, innerHTML>>
        /\ (redo /\ historyIndex = Len(history) - 1) =>
             UNCHANGED <<history, historyIndex, innerHTML>>]_vars

\* The only event so far was an undo, or a redo, on a history of one entry.
C12_Witness ==
  /\ events = 1
  /\ Len(history) = 1
  /\ ~debounce.active
  /\ \A r \in Revisions : revs[r].pc = "idle"

\* C13: away from the first entry undo moves the index back by one and
\* sets content and caret to those of the snapshot at the new index, the
\* entries unchanged; redo does the same forward, away from the last entry.
C13_UndoRedoMove ==
  [][/\ (undo /\ historyIndex > 0) =>
          /\ historyIndex' = historyIndex - 1
          /\ innerHTML' = history[historyIndex' + 1].html
          /\ caret' = history[historyIndex' + 1].caret
          /\ history' = history
     /\ (redo /\ historyIndex < Len(history) - 1) =>
          /\ historyIndex' = historyIndex + 1
          /\ innerHTML' = history[historyIndex' + 1].html
          /\ caret' = history[historyIndex' + 1].caret
          /\ history' = history]_vars

\* An undo has moved the index off the last entry and restored a snapshot
\* with the caret inside the text.
C13_Witness ==
  /\ historyIndex < Len(history) - 1
  /\ innerHTML = history[historyIndex + 1].html
  /\ caret = history[historyIndex + 1].caret
  /\ caret > 0

C16_RejectedLeavesState ==
  [][\A r \in Revisions :
       (revs[r].pc = "idle" /\ revs'[r].pc = "rejected")
         => /\ innerHTML' = innerHTML
            /\ history' = history
            /\ historyIndex' = historyIndex]_vars

\* The characters of the first i text nodes.
RECURSIVE CharsThrough(_, _)
CharsThrough(nodes, i) ==
  IF i = 0 THEN 0 ELSE CharsThrough(nodes, i - 1) + nodes[i]

\* C17: for content whose text nodes in document order have total length L
\* and an offset k, k = 0 places the caret at the start of the document;
\* 0 < k <= L places it in the first text node at which the cumulative
\* character count reaches k, at the in-node offset k minus the characters
\* of the nodes before it; k > L places it at the end of the document.
C17_CaretPlacement ==
  selection.set =>
    LET nodes == textNodes(innerHTML)
        L == CharsThrough(nodes, Len(nodes))
        k == selection.offset
    IN /\ k = 0 => selection.at = "start"
       /\ (0 < k /\ k <= L) =>
            /\ selection.at = "text"
            /\ selection.node \in 1..Len(nodes)
            /\ CharsThrough(nodes, selection.node) >= k
            /\ \A j \in 0..(selection.node - 1) : CharsThrough(nodes, j) < k
            /\ selection.nodeOffset = k - CharsThrough(nodes, selection.node - 1)
       /\ k > L => selection.at = "end"

\* The caret was placed at the very end of a text node that is neither the
\* first nor the last one of the content.
C17_Witness ==
  /\ selection.set
  /\ selection.at = "text"
  /\ selection.node > 1
  /\ selection.node < Len(textNodes(innerHTML))
  /\ selection.nodeOffset = textNodes(innerHTML)[selection.node]

\* What a Change Unit shows by its state and texts: the text of the state in
\* full (a line break for every newline), or the placeholder of the empty
\* case.
DisplayByState(unit) ==
  IF unit.state = "modified"
  THEN (IF unit.modified = <<>> THEN <<MarkerDeleted>>
        ELSE Decode(formatForDisplay(unit.modified)))
  ELSE (IF unit.original = <<>> THEN <<MarkerAdded>>
        ELSE Decode(formatForDisplay(unit.original)))

\* C18: right after rendering and after any number of toggles, every Change
\* Unit shows what its displayState and texts determine: in Revised the
\* revisedText, or only the deletion placeholder when revisedText is empty;
\* in Original the full originalText, or only the insertion placeholder when
\* originalText is empty.
C18_DisplayByState ==
  pcD = "rendered" =>
    \A i \in 1..Len(fragment) :
      fragment[i].tag = "span" => fragment[i].inner = DisplayByState(fragment[i])

\* Index of the first </div> of items, or Len(items) + 1.
RECURSIVE FirstClose(_)
FirstClose(items) ==
  IF items = <<>> \/ Head(items).tag = "/div" THEN 1 ELSE 1 + FirstClose(Tail(items))

\* The paragraph blocks of a fragment: the content of each <div>, in order.
RECURSIVE ParagraphBlocks(_)
ParagraphBlocks(items) ==
  IF items = <<>> THEN <<>>
  ELSE IF Head(items).tag = "div"
  THEN LET rest == Tail(items)
           k == FirstClose(rest)
       IN <<SubSeq(rest, 1, k - 1)>> \o ParagraphBlocks(SubSeq(rest, k + 1, Len(rest)))
  ELSE ParagraphBlocks(Tail(items))

\* The plain text items of a string.
PlainItems(str) == [i \in 1..Len(str) |-> Text(str[i])]

\* C19: the revision that appends a third line to two unchanged lines
\* renders as exactly three paragraph blocks and nothing outside them: the
\* first two are the plain text of the two original lines with no Change
\* Unit, the third holds exactly one Change Unit, a pure insertion whose
\* revisedText is the new line, and nothing else but the zero-width guards
\* around the unit.
C19_ScenarioB ==
  (pcD = "rendered" /\ nclicks = 0
     /\ originalText = ScenarioOriginal /\ modifiedText = ScenarioRevised) =>
    LET blocks == ParagraphBlocks(fragment) IN
    /\ Len(blocks) = 3
    /\ Len(fragment) = Len(blocks[1]) + Len(blocks[2]) + Len(blocks[3]) + 6
    /\ blocks[1] = PlainItems(Sentence(<<"ha", "na">>))
    /\ blocks[2] = PlainItems(Sentence(<<"dul">>))
    /\ Cardinality({i \in 1..Len(blocks[3]) : blocks[3][i].tag = "span"}) = 1
    /\ \A i \in 1..Len(blocks[3]) :
         \/ blocks[3][i] = ZWSP
         \/ /\ blocks[3][i].tag = "span"
            /\ blocks[3][i].original = <<>>
            /\ blocks[3][i].modified = Sentence(<<"set">>)
            /\ blocks[3][i].inner = Sentence(<<"set">>)

\* The tokens the diff of a build works on.
tokensOf(b, text) == IF b = "part_004" THEN tokenize(text) ELSE tokenizeDE(text)

\* C20: the diff of a text against itself consists of Equal operations
\* only, one per token of the text and in the order of the tokens, and its
\* rendering holds no Change Unit.
C20_IdenticalInput ==
  originalText = modifiedText =>
    /\ pcD \in {"diffed", "rendered"} =>
         LET tokens == tokensOf(build, originalText) IN
         diffs = [i \in 1..Len(tokens) |-> Op("equal", tokens[i])]
    /\ pcD = "rendered" =>
         \A i \in 1..Len(fragment) : fragment[i].tag # "span"

\* A text of several tokens, a newline among them, was diffed against
\* itself and rendered.
C20_Witness ==
  /\ pcD = "rendered"
  /\ originalText = modifiedText
  /\ Len(diffs) >= 3
  /\ \E i \in 1..Len(diffs) : diffs[i].value = <<NL>>

\* C21: the renderer of part_004 emits exactly one Change Unit for each
\* maximal run of consecutive non-Equal operations not interrupted by an
\* inserted newline, in order: its originalText is the concatenation of the
\* run's Delete values, its revisedText that of the run's Insert values, and
\* the two are never both empty; the Equal tokens (their newlines aside,
\* which close the lines) are the plain text outside the units.
C21_OneUnitPerRun ==
  (build = "part_004" /\ pcD = "rendered" /\ nclicks = 0) =>
    LET n == Len(diffs)
        Break(i) == \/ diffs[i].type = "equal"
                    \/ diffs[i].type = "insert" /\ diffs[i].value = <<NL>>
        Starts == {a \in 1..n : ~Break(a) /\ (a = 1 \/ Break(a - 1))}
        EndOf(a) == CHOOSE b \in a..n :
                      /\ \A t \in a..b : ~Break(t)
                      /\ b = n \/ Break(b + 1)
        Units == {i \in 1..Len(fragment) : fragment[i].tag = "span"}
        RankRun(a) == Cardinality({x \in Starts : x <= a})
        RankUnit(i) == Cardinality({x \in Units : x <= i})
        IsText(it) == it.tag = "text"
        NotNL(c) == c # NL
        plain == SelectSeq(fragment, IsText)
        equal == SelectSeq(ValuesOf(diffs, {"equal"}), NotNL)
    IN /\ Cardinality(Units) = Cardinality(Starts)
       /\ \A a \in Starts, i \in Units :
            RankRun(a) = RankUnit(i) =>
              /\ fragment[i].original = ValuesOf(SubSeq(diffs, a, EndOf(a)), {"delete"})
              /\ fragment[i].modified = ValuesOf(SubSeq(diffs, a, EndOf(a)), {"insert"})
       /\ \A i \in Units : fragment[i].original # <<>> \/ fragment[i].modified # <<>>
       /\ [k \in 1..Len(plain) |-> plain[k].ch] = equal

\* A run of non-Equal operations with an inserted newline inside it was
\* rendered as two units or more.
C21_Witness ==
  /\ build = "part_004" /\ pcD = "rendered" /\ nclicks = 0
  /\ \E i \in 2..(Len(diffs) - 1) :
       /\ diffs[i].type = "insert" /\ diffs[i].value = <<NL>>
       /\ diffs[i - 1].type # "equal"
       /\ diffs[i + 1].type = "insert"
  /\ Cardinality({i \in 1..Len(fragment) : fragment[i].tag = "span"}) >= 2

\* C22: at a cell (i, j) of the backward scan with i > 0 and j > 0 whose
\* tokens differ and whose left score dp[i][j-1] equals its upper score
\* dp[i-1][j], the scan emits the Insert of the modified token and not the
\* Delete of the original token.  The cell operation k is emitted from is
\* (the Equal and Delete operations up to k, the Equal and Insert ones).
C22_InsertOnTie ==
  pcD \in {"diffed", "rendered"} =>
    LET tokens1 == tokensOf(build, originalText)
        tokens2 == tokensOf(build, modifiedText)
        Row(k) == Cardinality({x \in 1..k : diffs[x].type \in {"equal", "delete"}})
        Col(k) == Cardinality({x \in 1..k : diffs[x].type \in {"equal", "insert"}})
    IN \A k \in 1..Len(diffs) :
         (/\ Row(k) > 0 /\ Col(k) > 0
          /\ tokens1[Row(k)] # tokens2[Col(k)]
          /\ dp(tokens1, tokens2, Row(k), Col(k) - 1)
               = dp(tokens1, tokens2, Row(k) - 1, Col(k)))
           => /\ diffs[k].type = "insert"
              /\ diffs[k].value = tokens2[Col(k)]

\* The scan met a tie with a positive score: both an Insert and a Delete
\* would keep a longest common subsequence.
C22_Witness ==
  /\ pcD = "diffed"
  /\ LET tokens1 == tokensOf(build, originalText)
         tokens2 == tokensOf(build, modifiedText)
     IN \E i \in 1..Len(tokens1), j \in 1..Len(tokens2) :
          /\ tokens1[i] # tokens2[j]
          /\ dp(tokens1, tokens2, i, j - 1) = dp(tokens1, tokens2, i - 1, j)
          /\ dp(tokens1, tokens2, i, j - 1) > 0
          /\ \E k \in 1..Len(diffs) :
               /\ Cardinality({x \in 1..k : diffs[x].type \in {"equal", "delete"}}) = i
               /\ Cardinality({x \in 1..k : diffs[x].type \in {"equal", "insert"}}) = j
               /\ diffs[k].type = "insert"

\* C23: the token sequences the diff engine aligns hold no empty token, and
\* every token that holds a newline is exactly the one-character token
\* "\n".
C23_NewlineIsolated ==
  pcD \in {"diffed", "rendered"} =>
    \A text \in {originalText, modifiedText} :
      LET tokens == tokensOf(build, text) IN
      \A k \in 1..Len(tokens) :
        /\ tokens[k] # <<>>
        /\ (\E c \in 1..Len(tokens[k]) : tokens[k][c] = NL) => tokens[k] = <<NL>>

\* C24: the number of Equal operations of the diff is the length of a
\* longest common subsequence of the two token sequences: there is a common
\* subsequence of that length (index sets S and T of equal size whose
\* tokens agree rank by rank) and none longer.
C24_Minimality ==
  pcD \in {"diffed", "rendered"} =>
    LET tokens1 == tokensOf(build, originalText)
        tokens2 == tokensOf(build, modifiedText)
        Nth(S, r) == CHOOSE x \in S : Cardinality({y \in S : y <= x}) = r
        Common(S, T) ==
          /\ Cardinality(S) = Cardinality(T)
          /\ \A r \in 1..Cardinality(S) : tokens1[Nth(S, r)] = tokens2[Nth(T, r)]
        Lengths == {Cardinality(S) : S \in {S \in SUBSET (1..Len(tokens1)) :
                      \E T \in SUBSET (1..Len(tokens2)) : Common(S, T)}}
        equals == Cardinality({k \in 1..Len(diffs) : diffs[k].type = "equal"})
    IN /\ equals \in Lengths
       /\ \A l \in Lengths : l <= equals

\* A diff that keeps a token and drops another one that also occurs in both
\* texts: the common tokens cannot all be kept.
C24_Witness ==
  /\ pcD = "diffed"
  /\ \E k \in 1..Len(diffs) : diffs[k].type = "equal"
  /\ \E k, l \in 1..Len(diffs) :
       /\ diffs[k].type = "delete" /\ diffs[l].type = "insert"
       /\ diffs[k].value = diffs[l].value

\* C25: in every reachable state in which no debounced snapshot is pending
\* and no revision is in flight, the snapshot at the current history index
\* has the content of the live document.
C25_QuiescentConsistency ==
  (debounce = NoTimer /\ \A r \in Revisions : ~InFlight(r)) =>
    history[historyIndex + 1].html = innerHTML

\* C26: after a successful revision a single undo restores the content
\* that was live immediately before the fragment was spliced in, and a
\* following redo restores the post-revision content.  Undo puts back the
\* entry below the current one and redo the entry it left, so right after
\* a splice that changes the document the entry below the current one holds
\* the content before the splice and the current one the content after it.
C26_UndoRestoresPreRevision ==
  [][\A r \in Revisions :
       (revs[r].pc = "awaiting" /\ revs'[r].pc = "applied" /\ innerHTML' # innerHTML)
         => /\ historyIndex' > 0
            /\ history'[historyIndex'].html = innerHTML
            /\ history'[historyIndex' + 1].html = innerHTML']_vars

\* Entry t (0-based) of the history was recorded before the open document
\* was selected: it is one of the entries the history held then, at or
\* below the index of then, or above it with no snapshot pushed since.
Foreign(t) ==
  /\ t + 1 <= Len(opened.history)
  /\ history[t + 1] = opened.history[t + 1]
  /\ t <= opened.index \/ history = opened.history

\* C27: after the user opens a different document, undo and redo (the steps
\* that move the index over an unchanged history) never put back a snapshot
\* that was recorded while another document was open.
C27_HistoryIsolation ==
  [][(history' = history /\ historyIndex' # historyIndex)
       => ~Foreign(historyIndex')]_vars

\* The content the user last gave document d.
Latest(d) == IF d = currentDoc THEN innerHTML ELSE latest[d]

\* C30: every content edit of a document is eventually written to storage
\* for that document: from some point on the stored content of every
\* document is the content the user last gave it.
C30_AutosaveLiveness ==
  <>[](\A d \in DocIds : documents[d] = Latest(d))

\* C28: within every maximal run of consecutive non-Equal operations of the
\* diff all Delete operations precede all Insert operations: an Insert is
\* never immediately followed by a Delete.
C28_DeletesBeforeInserts ==
  pcD \in {"diffed", "rendered"} =>
    /\ \A k \in 1..(Len(diffs) - 1) :
         ~(diffs[k].type = "insert" /\ diffs[k + 1].type = "delete")
    /\ \A k, l \in 1..Len(diffs) :
         (/\ k < l /\ diffs[k].type = "insert" /\ diffs[l].type = "delete")
           => \E e \in (k + 1)..(l - 1) : diffs[e].type = "equal"

\* A run holding two deletions and an insertion, or a deletion and two
\* insertions.
C28_Witness ==
  /\ pcD = "diffed"
  /\ \E k \in 1..(Len(diffs) - 2) :
       /\ diffs[k].type = "delete"
       /\ diffs[k + 1].type \in {"delete", "insert"}
       /\ diffs[k + 2].type = "insert"

\* The text of a paragraph block with every Change Unit in Revised state:
\* the plain characters and the revisedText of the units, in order; guards,
\* the <br> of an empty line and the deletion placeholder count as empty.
RECURSIVE BlockText(_)
BlockText(block) ==
  IF block = <<>> THEN <<>>
  ELSE (IF Head(block).tag = "text" THEN <<Head(block).ch>>
        ELSE IF Head(block).tag = "span" THEN Head(block).modified
        ELSE <<>>)
       \o BlockText(Tail(block))

\* The texts of the blocks joined by exactly one newline.
RECURSIVE JoinBlocks(_)
JoinBlocks(blocks) ==
  IF blocks = <<>> THEN <<>>
  ELSE IF Len(blocks) = 1 THEN BlockText(Head(blocks))
  ELSE BlockText(Head(blocks)) \o <<NL>> \o JoinBlocks(Tail(blocks))

====
